---- MODULE Spec2Model ----
(***************************************************************************)
(* VSRTL core: the reversible write memory (WrMemory over an AddressSpace) *)
(* of core/vsrtl_memory.h and the signal graph of core/vsrtl_signal.h.     *)
(***************************************************************************)
EXTENDS Integers, Sequences, FiniteSets, TLC

(***************************************************************************)
(* Bounds of the model.                                                    *)
(***************************************************************************)
\* largest value of the addr input port (and of forceValue's address)
MaxAddr == 1
\* largest reverse-stack capacity the driver configures
MaxCap == 1
\* number of values one byte of the AddressSpace can take (256 in the program)
ByteRadix == 2
\* bytes in one VSRTL_VT_U word (sizeof(VSRTL_VT_U) in the program)
WordBytes == 2

\* clock edges given to the two memories that share an AddressSpace
MaxEdges == 1

\* input signals, output signals and components of the signal graph
NumInputs == 3
NumOutputs == 2
NumComponents == 2
\* largest value a signal carries
MaxVal == 1

(***************************************************************************)
(* Program constants.                                                      *)
(***************************************************************************)
\* word-indexed memories shift the address left by 2
WordShift == 2

VARIABLES
    mem,              \* AddressSpace contents: address -> byte
    m_reverseStack,   \* WrMemory::m_reverseStack, front (newest) first
    reverseStackSize, \* the configured reverse-stack capacity
    byteIndexed,      \* the byteIndexed template parameter of the memory
    lastOp,           \* history: the operation that produced this state
    prevOp,           \* history: the operation before a reverse(), "-" after any other
    nsave,            \* history: consecutive save() calls before the reverses
    nrev,             \* history: consecutive reverse() calls since those saves
    snaps,            \* history: memory before each save not yet reversed, newest first
    pre,              \* history of the last call that was not a reverse(), kept
                      \* through one following reverse(): memory and stack before a
                      \* save() and whether it changed the memory, the arguments of
                      \* a forceValue(), the stack depth before a forceValue() or
                      \* a reset()
    m_signal,         \* InputSignal::m_signal of every input: the variant's reference
    m_value,          \* OutputSignal::m_value of every output
    m_propagationFunction, \* OutputSignal::m_propagationFunction of every output
    failure,          \* how the program ended, "none" while it runs
    sigOp,            \* history: the last operation on the signal graph
    sigArg,           \* history: the input a connect was called on
    rdByteIndexed,    \* byteIndexed of the read-capable memories
    rdAddr,           \* the value driven on the addr input of both memories
    syncMem,          \* AddressSpace of the MemorySyncRd
    syncStack,        \* m_reverseStack of the MemorySyncRd
    sync_data_out,    \* MemorySyncRd::data_out
    asyncMem,         \* AddressSpace shared by _wr_mem and _rd_mem of the MemoryAsyncRd
    asyncStack,       \* m_reverseStack of MemoryAsyncRd::_wr_mem
    rd_data_out,      \* MemoryAsyncRd::_rd_mem->data_out
    async_data_out,   \* MemoryAsyncRd::data_out
    rdOp,             \* history: the last operation on the read-capable memories
    rdPrev,           \* history: the operation before it
    rdEdge,           \* history: the last clock edge: inputs, word at the address
                      \* before and after the edge
    romByteIndexed,   \* byteIndexed of the ROM
    romMem,           \* AddressSpace attached to the ROM
    romAddr,          \* the value driven on the ROM's addr input
    rom_data_out,     \* ROM::data_out
    romOp,            \* history: the last operation on the ROM
    shByteIndexed,    \* byteIndexed of the two WrMemory components on one AddressSpace
    shCap,            \* their reverse-stack capacity
    shMem,            \* the AddressSpace they share
    shStack,          \* m_reverseStack of each of the two components
    shPorts,          \* the input ports of each: wr_en, addr, data_in, wr_width
    shBefore,         \* history: the shared AddressSpace before the last edge
    shOp,             \* history: the last operation on the two components
    shEdges           \* history: the number of clock edges so far

memVars == <<mem, m_reverseStack, reverseStackSize, byteIndexed>>
histVars == <<lastOp, prevOp, nsave, nrev, snaps, pre>>
sigVars == <<m_signal, m_value, m_propagationFunction, failure, sigOp, sigArg>>
rdVars == <<rdByteIndexed, rdAddr, syncMem, syncStack, sync_data_out, asyncMem, asyncStack,
            rd_data_out, async_data_out, rdOp, rdPrev, rdEdge>>
romVars == <<romByteIndexed, romMem, romAddr, rom_data_out, romOp>>
shVars == <<shByteIndexed, shCap, shMem, shStack, shPorts, shBefore, shOp, shEdges>>
vars == <<memVars, histVars, sigVars, rdVars, romVars, shVars>>

(***************************************************************************)
(* Values.                                                                 *)
(***************************************************************************)
RECURSIVE Pow(_, _)
Pow(b, e) == IF e = 0 THEN 1 ELSE b * Pow(b, e - 1)

Min(a, b) == IF a < b THEN a ELSE b

\* a << s on addresses far below the width of VSRTL_VT_U
Shl(a, s) == a * Pow(2, s)

Bytes == 0 .. (ByteRadix - 1)
Words == 0 .. (Pow(ByteRadix, WordBytes) - 1)
Widths == 0 .. WordBytes
PortAddrs == 0 .. MaxAddr
MemAddrs == 0 .. (Shl(MaxAddr, WordShift) + WordBytes - 1)
Caps == 0 .. MaxCap

\* byte i (0 = least significant) of a word value
ByteOf(value, i) == (value \div Pow(ByteRadix, i)) % ByteRadix

(***************************************************************************)
(* AddressSpace: sparse byte storage, unwritten bytes read as 0.           *)
(***************************************************************************)
ByteAt(m, a) == IF a \in DOMAIN m THEN m[a] ELSE 0

RECURSIVE ReadBytes(_, _, _)
ReadBytes(m, address, n) ==
    IF n = 0 THEN 0
    ELSE ReadBytes(m, address, n - 1) + ByteAt(m, address + n - 1) * Pow(ByteRadix, n - 1)

readMem(m, address) == ReadBytes(m, address, WordBytes)

writeMem(m, address, value, size) ==
    [a \in DOMAIN m |->
        IF a >= address /\ a < address + size THEN ByteOf(value, a - address) ELSE m[a]]

\* the regions of the AddressSpace: (RegionType, base, size), non-overlapping
Regions ==
    {[type |-> "rom", base |-> 0, size |-> Shl(1, WordShift)],
     [type |-> "ram", base |-> Shl(1, WordShift), size |-> Shl(1, WordShift)]}

\* AddressSpace::regionType(address); an address in no region is unmapped
regionType(address) ==
    IF \E r \in Regions : address >= r.base /\ address < r.base + r.size
    THEN (CHOOSE r \in Regions : address >= r.base /\ address < r.base + r.size).type
    ELSE "unmapped"

(***************************************************************************)
(* BaseMemory<addrWidth, dataWidth, byteIndexed>                           *)
(***************************************************************************)
\* accessRegion() of WrMemory, RdMemory and MemoryAsyncRd:
\* this->memory()->regionType(addr.uValue())
accessRegion(bi, address) == regionType(address)

EffAddr(bi, address) == IF bi THEN address ELSE Shl(address, WordShift)

read(m, bi, address) == readMem(m, EffAddr(bi, address))

write(m, bi, address, value, size) == writeMem(m, EffAddr(bi, address), value, size)

(***************************************************************************)
(* WrMemory                                                                *)
(***************************************************************************)
MemoryEviction(we, a, d, w) == [writeEnable |-> we, addr |-> a, data |-> d, width |-> w]

\* a value-initialised MemoryEviction, what deque::resize appends
DefaultEviction == MemoryEviction(FALSE, 0, 0, 0)

\* std::deque::resize(n): drop from the back, or append default elements
Resize(s, n) ==
    IF n <= Len(s) THEN SubSeq(s, 1, n)
    ELSE s \o [i \in 1 .. (n - Len(s)) |-> DefaultEviction]

saveToStack(stack, v, cap) ==
    LET pushed == <<v>> \o stack
    IN IF Len(pushed) > cap THEN SubSeq(pushed, 1, Len(pushed) - 1) ELSE pushed

\* mutant of saveEviction: the old data is read at the unshifted address
saveEviction_RawRead(m, bi, we, a, w) == MemoryEviction(we, a, readMem(m, a), w)

\* the record save() builds from the input ports and the memory
saveEviction(m, bi, we, a, w) == MemoryEviction(we, a, read(m, bi, a), w)

\* mutant of saveMem: a full word is written whatever wr_width says
saveMem_FullWord(m, bi, we, a, d, w) == IF we THEN write(m, bi, a, d, WordBytes) ELSE m

\* mutant of saveMem: the write is made whatever wr_en says
saveMem_Unconditional(m, bi, we, a, d, w) == write(m, bi, a, d, w)

\* the memory after save(): if (writeEnable) this->write(addr_v, data_in_v, wr_width)
saveMem(m, bi, we, a, d, w) == IF we THEN write(m, bi, a, d, w) ELSE m

\* mutant of reverseMem: no test for an empty stack, whose front() is taken to
\* be a record of a full-word write of 0 at address 0
reverseMem_Unguarded(m, bi, stack) ==
    LET lastEviction == IF Len(stack) > 0 THEN Head(stack)
                        ELSE MemoryEviction(TRUE, 0, 0, WordBytes)
    IN IF lastEviction.writeEnable
       THEN write(m, bi, lastEviction.addr, lastEviction.data, lastEviction.width)
       ELSE m

\* mutant of reverseMem: the whole captured word is written back, not the
\* record's width
reverseMem_FullWord(m, bi, stack) ==
    IF Len(stack) > 0
    THEN LET lastEviction == Head(stack)
         IN IF lastEviction.writeEnable
            THEN write(m, bi, lastEviction.addr, lastEviction.data, WordBytes)
            ELSE m
    ELSE m

\* the memory after reverse()
reverseMem(m, bi, stack) ==
    IF Len(stack) > 0
    THEN LET lastEviction == Head(stack)
         IN IF lastEviction.writeEnable
            THEN write(m, bi, lastEviction.addr, lastEviction.data, lastEviction.width)
            ELSE m
    ELSE m

reverseStack(stack) == IF Len(stack) > 0 THEN Tail(stack) ELSE stack

\* mutant of resetStack: the records are left in place
resetStack_Kept(stack) == stack

resetStack(stack) == << >>

forceMem(m, bi, address, value) == write(m, bi, address, value, WordBytes)

\* mutant of forceStack: the forced write is recorded like a clocked write
forceStack_Recorded(stack, m, bi, address) ==
    <<MemoryEviction(TRUE, address, read(m, bi, address), WordBytes)>> \o stack

\* forceValue() does not touch m_reverseStack
forceStack(stack, m, bi, address) == stack

reverseStackSizeChanged(stack, cap) ==
    IF cap < Len(stack) THEN Resize(stack, Len(stack)) ELSE stack

(***************************************************************************)
(* History bookkeeping (not program state).                                *)
(***************************************************************************)
Trunc(s, n) == IF Len(s) > n THEN SubSeq(s, 1, n) ELSE s

NoSnapshot ==
    [mem |-> << >>, stack |-> << >>, addr |-> 0, value |-> 0, depth |-> 0, wrote |-> FALSE]

SaveSnapshot == [NoSnapshot EXCEPT !.mem = mem, !.stack = m_reverseStack, !.wrote = mem' # mem]

ForceSnapshot(address, value) ==
    [NoSnapshot EXCEPT !.addr = address, !.value = value, !.depth = Len(m_reverseStack)]

ResetSnapshot == [NoSnapshot EXCEPT !.depth = Len(m_reverseStack)]

ForgetRun == /\ prevOp' = "-"
             /\ nsave' = 0
             /\ nrev' = 0
             /\ snaps' = << >>

(***************************************************************************)
(* Actions of a WrMemory.                                                  *)
(***************************************************************************)
MemInit ==
    /\ mem = [a \in MemAddrs |-> 0]
    /\ m_reverseStack = << >>
    /\ reverseStackSize \in Caps
    /\ byteIndexed \in BOOLEAN
    /\ lastOp = "init"
    /\ prevOp = "-"
    /\ nsave = 0
    /\ nrev = 0
    /\ snaps = << >>
    /\ pre = NoSnapshot

\* void save(): the clock edge, with the input ports' values
Save(we, a, d, w) ==
    /\ m_reverseStack' =
          saveToStack(m_reverseStack, saveEviction(mem, byteIndexed, we, a, w), reverseStackSize)
    /\ mem' = saveMem(mem, byteIndexed, we, a, d, w)
    /\ UNCHANGED <<reverseStackSize, byteIndexed>>
    /\ lastOp' = "save"
    /\ prevOp' = "-"
    /\ nsave' = IF lastOp = "save" THEN Min(nsave + 1, MaxCap + 1) ELSE 1
    /\ nrev' = 0
    /\ snaps' = Trunc(<<mem>> \o (IF lastOp = "save" THEN snaps ELSE << >>), reverseStackSize)
    /\ pre' = SaveSnapshot
    /\ UNCHANGED <<sigVars, rdVars, romVars, shVars>>

\* void reverse()
Reverse ==
    /\ mem' = reverseMem(mem, byteIndexed, m_reverseStack)
    /\ m_reverseStack' = reverseStack(m_reverseStack)
    /\ UNCHANGED <<reverseStackSize, byteIndexed>>
    /\ lastOp' = "reverse"
    /\ prevOp' = lastOp
    /\ nrev' = Min(nrev + 1, MaxCap + 2)
    /\ snaps' = IF Len(snaps) > 1 THEN Tail(snaps) ELSE snaps
    /\ pre' = IF lastOp = "reverse" THEN NoSnapshot ELSE pre
    /\ UNCHANGED nsave
    /\ UNCHANGED <<sigVars, rdVars, romVars, shVars>>

\* mutant of Reset: the front record is undone before the stack is cleared
Reset_Rewinds ==
    /\ m_reverseStack' = resetStack(m_reverseStack)
    /\ mem' = reverseMem(mem, byteIndexed, m_reverseStack)
    /\ UNCHANGED <<reverseStackSize, byteIndexed>>
    /\ lastOp' = "reset"
    /\ pre' = ResetSnapshot
    /\ ForgetRun
    /\ UNCHANGED <<sigVars, rdVars, romVars, shVars>>

\* void reset()
Reset ==
    /\ m_reverseStack' = resetStack(m_reverseStack)
    /\ UNCHANGED <<mem, reverseStackSize, byteIndexed>>
    /\ lastOp' = "reset"
    /\ pre' = ResetSnapshot
    /\ ForgetRun
    /\ UNCHANGED <<sigVars, rdVars, romVars, shVars>>

\* void forceValue(address, value)
ForceValue(address, value) ==
    /\ mem' = forceMem(mem, byteIndexed, address, value)
    /\ m_reverseStack' = forceStack(m_reverseStack, mem, byteIndexed, address)
    /\ UNCHANGED <<reverseStackSize, byteIndexed>>
    /\ lastOp' = "force"
    /\ pre' = ForceSnapshot(address, value)
    /\ ForgetRun
    /\ UNCHANGED <<sigVars, rdVars, romVars, shVars>>

\* the driver sets a new capacity, then the component's reverseStackSizeChanged() runs
SetReverseStackSize(k) ==
    /\ k # reverseStackSize
    /\ reverseStackSize' = k
    /\ m_reverseStack' = reverseStackSizeChanged(m_reverseStack, k)
    /\ UNCHANGED <<mem, byteIndexed>>
    /\ lastOp' = "resize"
    /\ pre' = NoSnapshot
    /\ ForgetRun
    /\ UNCHANGED <<sigVars, rdVars, romVars, shVars>>

(***************************************************************************)
(* Signal graph: OutputSignal<bitwidth> and InputSignal<bitwidth>.         *)
(***************************************************************************)
Inputs == 1 .. NumInputs
Outputs == 1 .. NumOutputs
Components == 1 .. NumComponents
Vals == 0 .. MaxVal

\* nullptr
Null == 0

\* the two alternatives of std::variant<OutputSignal*, InputSignal*>
OutRef(o) == [kind |-> "output", ptr |-> o]
InRef(j) == [kind |-> "input", ptr |-> j]

\* m_parent of each signal, fixed at construction
InParent(i) == ((i - 1) % NumComponents) + 1
OutParent(o) == (o % NumComponents) + 1

\* the outcome of a call: it returns a value, or it does not return
Returns(v) == [returns |-> TRUE, value |-> v]
NoReturn == [returns |-> FALSE, value |-> 0]

\* T OutputSignal::value(): the value read through a pointer; reading through
\* nullptr is undefined, any value or a crash
outputValue(val, o) ==
    IF o = Null THEN {NoReturn} \cup {Returns(v) : v \in Vals} ELSE {Returns(val[o])}

\* T InputSignal::value() const; a recursion deeper than the number of inputs
\* never ends
RECURSIVE valueRec(_, _, _, _)
valueRec(sig, val, i, fuel) ==
    IF sig[i].kind = "output" THEN outputValue(val, sig[i].ptr)
    ELSE IF fuel = 0 THEN {NoReturn}
    ELSE valueRec(sig, val, sig[i].ptr, fuel - 1)

value(sig, val, i) == valueRec(sig, val, i, NumInputs)

\* mutant of isConnectedRec: a pass-through reference counts as connected
isConnectedRec_OneHop(sig, i, fuel) ==
    IF sig[i].kind = "output" THEN Returns(sig[i].ptr # Null) ELSE Returns(TRUE)

\* bool InputSignal::isConnected() const
RECURSIVE isConnectedRec(_, _, _)
isConnectedRec(sig, i, fuel) ==
    IF sig[i].kind = "output" THEN Returns(sig[i].ptr # Null)
    ELSE IF fuel = 0 THEN NoReturn
    ELSE isConnectedRec(sig, sig[i].ptr, fuel - 1)

isConnected(sig, i) == isConnectedRec(sig, i, NumInputs)

\* Component* InputSignal::getConnectedParent(): the parent of the signal the
\* variant points at; 0 stands for the crash of reading through nullptr
getConnectedParent(sig, i) ==
    IF sig[i].kind = "output"
    THEN IF sig[i].ptr = Null THEN {0} \cup Components ELSE {OutParent(sig[i].ptr)}
    ELSE {InParent(sig[i].ptr)}

\* mutant of verifyIsNotConnected: connectedness is resolved through the chain
verifyIsNotConnected_Resolved(sig, i) ==
    LET connected == isConnected(sig, i) IN connected.returns /\ connected.value

\* void InputSignal::verifyIsNotConnected(): TRUE when it reports the error
verifyIsNotConnected(sig, i) ==
    IF sig[i].kind = "output" THEN sig[i].ptr # Null ELSE TRUE

\* bool OutputSignal::hasPropagationFunction() const
hasPropagationFunction(fn, o) == fn[o].kind # "null"

NoFunction == [kind |-> "null", ptr |-> Null]
\* a function installed by the owning component
Lambda == [kind |-> "lambda", ptr |-> Null]
\* OutputSignal::getFunctor(): returns the other output's m_value when called
getFunctor(o) == [kind |-> "functor", ptr |-> o]

SigInit ==
    /\ m_signal = [i \in Inputs |-> OutRef(Null)]
    /\ m_value = [o \in Outputs |-> 0]
    /\ m_propagationFunction = [o \in Outputs |-> NoFunction]
    /\ failure = "none"
    /\ sigOp = "init"
    /\ sigArg = 0

\* the body shared by both InputSignal::connect overloads
Connect(i, ref) ==
    /\ failure = "none"
    /\ IF verifyIsNotConnected(m_signal, i)
       THEN /\ failure' = "assert"
            /\ UNCHANGED m_signal
       ELSE /\ m_signal' = [m_signal EXCEPT ![i] = ref]
            /\ UNCHANGED failure
    /\ UNCHANGED <<m_value, m_propagationFunction>>
    /\ sigOp' = "connect"
    /\ sigArg' = i
    /\ UNCHANGED <<memVars, histVars, rdVars, romVars, shVars>>

\* void InputSignal::connect(InputSignal&), fromThisInput >> toThisInput
ConnectInput(i, j) == Connect(i, InRef(j))

\* void InputSignal::connect(OutputSignal&), fromThisOutput >> toThisInput
ConnectOutput(i, o) == Connect(i, OutRef(o))

\* void OutputSignal::setValue(v)
SetValue(o, v) ==
    /\ failure = "none"
    /\ m_value' = [m_value EXCEPT ![o] = v]
    /\ UNCHANGED <<m_signal, m_propagationFunction, failure>>
    /\ sigOp' = "setValue"
    /\ sigArg' = o
    /\ UNCHANGED <<memVars, histVars, rdVars, romVars, shVars>>

\* void OutputSignal::setPropagationFunction(f)
SetPropagationFunction(o, f) ==
    /\ failure = "none"
    /\ m_propagationFunction' = [m_propagationFunction EXCEPT ![o] = f]
    /\ UNCHANGED <<m_signal, m_value, failure>>
    /\ sigOp' = "setPropagationFunction"
    /\ sigArg' = 0
    /\ UNCHANGED <<memVars, histVars, rdVars, romVars, shVars>>

\* void OutputSignal::connect(OutputSignal&), fromThisOutput >> toThisOutput
ConnectOutputs(o, otherOutput) == SetPropagationFunction(o, getFunctor(otherOutput))

\* void OutputSignal::propagate(): calling an empty std::function throws
Propagate(o) ==
    /\ failure = "none"
    /\ IF hasPropagationFunction(m_propagationFunction, o)
       THEN /\ \E v \in Vals :
                 /\ m_propagationFunction[o].kind = "functor"
                      => v = m_value[m_propagationFunction[o].ptr]
                 /\ m_value' = [m_value EXCEPT ![o] = v]
            /\ UNCHANGED failure
       ELSE /\ failure' = "bad_function_call"
            /\ UNCHANGED m_value
    /\ UNCHANGED <<m_signal, m_propagationFunction>>
    /\ sigOp' = "propagate"
    /\ sigArg' = o
    /\ UNCHANGED <<memVars, histVars, rdVars, romVars, shVars>>

ConnectInputStep == \E i \in Inputs, j \in Inputs : ConnectInput(i, j)

ConnectOutputStep == \E i \in Inputs, o \in Outputs : ConnectOutput(i, o)

SetValueStep == \E o \in Outputs, v \in Vals : SetValue(o, v)

SetFunctionStep == \E o \in Outputs : SetPropagationFunction(o, Lambda)

ConnectOutputsStep == \E o \in Outputs, other \in Outputs : ConnectOutputs(o, other)

PropagateStep == \E o \in Outputs : Propagate(o)

(***************************************************************************)
(* Read-capable memories: MemorySyncRd, and MemoryAsyncRd built from a     *)
(* WrMemory _wr_mem and an RdMemory _rd_mem on one AddressSpace. Both are  *)
(* driven with the same input values, each on an AddressSpace of its own.  *)
(***************************************************************************)
\* mutant of syncDataOut: the address is not shifted for word-indexed memories
syncDataOut_RawRead(m, bi, a) == readMem(m, a)

\* MemorySyncRd: data_out << [=] { return this->read(this->addr.uValue()); }
syncDataOut(m, bi, a) == read(m, bi, a)

\* RdMemory: data_out << [=] { auto _addr = addr.uValue(); return this->read(_addr); }
rdDataOut(m, bi, a) == read(m, bi, a)

NoEdge ==
    [writeEnable |-> FALSE, addr |-> 0, data_in |-> 0, width |-> 0, before |-> 0, after |-> 0]

RdInit ==
    /\ rdByteIndexed \in BOOLEAN
    /\ rdAddr = 0
    /\ syncMem = [a \in MemAddrs |-> 0]
    /\ syncStack = << >>
    /\ sync_data_out = 0
    /\ asyncMem = [a \in MemAddrs |-> 0]
    /\ asyncStack = << >>
    /\ rd_data_out = 0
    /\ async_data_out = 0
    /\ rdOp = "init"
    /\ rdPrev = "-"
    /\ rdEdge = NoEdge

RdIdle == RdInit /\ rdByteIndexed = TRUE

\* the upstream component drives a new address on the addr input of both memories
RdDrive(a) ==
    /\ a # rdAddr
    /\ rdAddr' = a
    /\ UNCHANGED <<rdByteIndexed, syncMem, syncStack, sync_data_out, asyncMem, asyncStack,
                   rd_data_out, async_data_out, rdEdge>>
    /\ rdOp' = "drive"
    /\ rdPrev' = rdOp
    /\ UNCHANGED <<memVars, histVars, sigVars, romVars, shVars>>

\* one clock edge: save() of the MemorySyncRd and of _wr_mem (the inner inputs
\* of MemoryAsyncRd pass the outer inputs through)
RdEdge(we, d, w) ==
    /\ syncStack' = saveToStack(syncStack,
                                saveEviction(syncMem, rdByteIndexed, we, rdAddr, w),
                                reverseStackSize)
    /\ syncMem' = saveMem(syncMem, rdByteIndexed, we, rdAddr, d, w)
    /\ asyncStack' = saveToStack(asyncStack,
                                 saveEviction(asyncMem, rdByteIndexed, we, rdAddr, w),
                                 reverseStackSize)
    /\ asyncMem' = saveMem(asyncMem, rdByteIndexed, we, rdAddr, d, w)
    /\ UNCHANGED <<rdByteIndexed, rdAddr, sync_data_out, rd_data_out, async_data_out>>
    /\ rdOp' = "edge"
    /\ rdPrev' = rdOp
    /\ rdEdge' = [writeEnable |-> we, addr |-> rdAddr, data_in |-> d, width |-> w,
                  before |-> read(syncMem, rdByteIndexed, rdAddr),
                  after |-> read(syncMem', rdByteIndexed, rdAddr)]
    /\ UNCHANGED <<memVars, histVars, sigVars, romVars, shVars>>

\* one propagation pass, in dependency order: data_out of the MemorySyncRd,
\* data_out of _rd_mem, then the outer data_out, whose propagation function
\* is the functor of _rd_mem->data_out
RdPropagate ==
    /\ sync_data_out' = syncDataOut(syncMem, rdByteIndexed, rdAddr)
    /\ rd_data_out' = rdDataOut(asyncMem, rdByteIndexed, rdAddr)
    /\ async_data_out' = rd_data_out'
    /\ UNCHANGED <<rdByteIndexed, rdAddr, syncMem, syncStack, asyncMem, asyncStack, rdEdge>>
    /\ rdOp' = "propagate"
    /\ rdPrev' = rdOp
    /\ UNCHANGED <<memVars, histVars, sigVars, romVars, shVars>>

RdDriveStep == \E a \in PortAddrs : RdDrive(a)

RdEdgeStep == \E we \in BOOLEAN, d \in Words, w \in Widths : RdEdge(we, d, w)

(***************************************************************************)
(* ROM: an RdMemory, which is a Component and a BaseMemory.                *)
(***************************************************************************)
\* the ROM after construction and setMemory(), on an AddressSpace that holds
\* any image
RomInit ==
    /\ romByteIndexed \in BOOLEAN
    /\ romMem \in [MemAddrs -> Bytes]
    /\ romAddr = 0
    /\ rom_data_out = 0
    /\ romOp = "init"

RomIdle ==
    /\ romByteIndexed = TRUE
    /\ romMem = [a \in MemAddrs |-> 0]
    /\ romAddr = 0
    /\ rom_data_out = 0
    /\ romOp = "init"

\* the upstream component drives a new address on the addr input
RomDrive(a) ==
    /\ a # romAddr
    /\ romAddr' = a
    /\ UNCHANGED <<romByteIndexed, romMem, rom_data_out>>
    /\ romOp' = "drive"
    /\ UNCHANGED <<memVars, histVars, sigVars, rdVars, shVars>>

\* data_out.propagate() with the function the RdMemory constructor installs
RomPropagate ==
    /\ rom_data_out' = rdDataOut(romMem, romByteIndexed, romAddr)
    /\ UNCHANGED <<romByteIndexed, romMem, romAddr>>
    /\ romOp' = "propagate"
    /\ UNCHANGED <<memVars, histVars, sigVars, rdVars, shVars>>

\* BaseMemory::write(address, v, size), a public member of the public
\* base class of RdMemory, called on the ROM
RomWrite(address, v, size) ==
    /\ romMem' = write(romMem, romByteIndexed, address, v, size)
    /\ UNCHANGED <<romByteIndexed, romAddr, rom_data_out>>
    /\ romOp' = "write"
    /\ UNCHANGED <<memVars, histVars, sigVars, rdVars, shVars>>

RomDriveStep == \E a \in PortAddrs : RomDrive(a)

RomWriteStep == \E a \in PortAddrs, v \in Words, n \in Widths : RomWrite(a, v, n)

(***************************************************************************)
(* Two WrMemory components attached to one AddressSpace with setMemory().  *)
(***************************************************************************)
Sharers == 1 .. 2

\* the orders in which the engine may call the two components
Orders == {<<1, 2>>, <<2, 1>>}

Ports(we, a, d, w) == [writeEnable |-> we, addr |-> a, data_in |-> d, width |-> w]

PortValues ==
    {Ports(we, a, d, w) : we \in BOOLEAN, a \in PortAddrs, d \in Words, w \in Widths}

\* contents the shared AddressSpace may hold when the two memories start
ShImages == {[a \in MemAddrs |-> b] : b \in {0, ByteRadix - 1}}

\* save() of component c on the shared AddressSpace
sharedSave(st, bi, cap, ports, c) ==
    LET p == ports[c]
    IN [mem |-> saveMem(st.mem, bi, p.writeEnable, p.addr, p.data_in, p.width),
        stack |-> [st.stack EXCEPT ![c] =
                      saveToStack(@, saveEviction(st.mem, bi, p.writeEnable, p.addr, p.width),
                                  cap)]]

\* reverse() of component c on the shared AddressSpace
sharedReverse(st, bi, c) ==
    [mem |-> reverseMem(st.mem, bi, st.stack[c]),
     stack |-> [st.stack EXCEPT ![c] = reverseStack(@)]]

ShInit ==
    /\ shByteIndexed \in BOOLEAN
    /\ shCap \in Caps
    /\ shMem \in ShImages
    /\ shStack = [c \in Sharers |-> << >>]
    /\ shPorts = [c \in Sharers |-> Ports(FALSE, 0, 0, 0)]
    /\ shBefore = shMem
    /\ shOp = "init"
    /\ shEdges = 0

ShIdle ==
    /\ shByteIndexed = TRUE
    /\ shCap = MaxCap
    /\ shMem = [a \in MemAddrs |-> 0]
    /\ shStack = [c \in Sharers |-> << >>]
    /\ shPorts = [c \in Sharers |-> Ports(FALSE, 0, 0, 0)]
    /\ shBefore = shMem
    /\ shOp = "init"
    /\ shEdges = 0

\* one clock edge with the given port values: save() of both components, in
\* the order the engine takes
ShEdge(order, ports) ==
    /\ shEdges < MaxEdges
    /\ LET now == [mem |-> shMem, stack |-> shStack]
           first == sharedSave(now, shByteIndexed, shCap, ports, order[1])
           second == sharedSave(first, shByteIndexed, shCap, ports, order[2])
       IN /\ shMem' = second.mem
          /\ shStack' = second.stack
    /\ shPorts' = ports
    /\ shBefore' = shMem
    /\ shOp' = "edge"
    /\ shEdges' = shEdges + 1
    /\ UNCHANGED <<shByteIndexed, shCap>>
    /\ UNCHANGED <<memVars, histVars, sigVars, rdVars, romVars>>

\* one step back: reverse() of both components, in the order the engine takes
ShReverse(order) ==
    /\ LET now == [mem |-> shMem, stack |-> shStack]
           first == sharedReverse(now, shByteIndexed, order[1])
           second == sharedReverse(first, shByteIndexed, order[2])
       IN /\ shMem' = second.mem
          /\ shStack' = second.stack
    /\ shOp' = "reverse"
    /\ UNCHANGED <<shByteIndexed, shCap, shPorts, shBefore, shEdges>>
    /\ UNCHANGED <<memVars, histVars, sigVars, rdVars, romVars>>

ShEdgeStep == \E order \in Orders, ports \in [Sharers -> PortValues] : ShEdge(order, ports)

ShReverseStep == \E order \in Orders : ShReverse(order)

\* the memory while the signal graph is exercised
MemIdle ==
    /\ mem = [a \in MemAddrs |-> 0]
    /\ m_reverseStack = << >>
    /\ reverseStackSize = MaxCap
    /\ byteIndexed = TRUE
    /\ lastOp = "init"
    /\ prevOp = "-"
    /\ nsave = 0
    /\ nrev = 0
    /\ snaps = << >>
    /\ pre = NoSnapshot

SaveStep == \E we \in BOOLEAN, a \in PortAddrs, d \in Words, w \in Widths : Save(we, a, d, w)

ForceStep == \E a \in PortAddrs, v \in Words : ForceValue(a, v)

ResizeStep == \E k \in Caps : SetReverseStackSize(k)

Init == MemInit /\ SigInit /\ RdIdle /\ RomIdle /\ ShIdle

Next == SaveStep \/ Reverse \/ Reset \/ ForceStep \/ ResizeStep

Spec == Init /\ [][Next]_vars

SigSpecInit == SigInit /\ MemIdle /\ RdIdle /\ RomIdle /\ ShIdle

SigNext ==
    \/ ConnectInputStep
    \/ ConnectOutputStep
    \/ SetValueStep
    \/ SetFunctionStep
    \/ ConnectOutputsStep
    \/ PropagateStep

SpecSig == SigSpecInit /\ [][SigNext]_vars

RdSpecInit == RdInit /\ MemIdle /\ SigInit /\ RomIdle /\ ShIdle

RdNext == RdDriveStep \/ RdEdgeStep \/ RdPropagate

SpecRd == RdSpecInit /\ [][RdNext]_vars

RomSpecInit == RomInit /\ MemIdle /\ SigInit /\ RdIdle /\ ShIdle

RomNext == RomDriveStep \/ RomPropagate \/ RomWriteStep

SpecRom == RomSpecInit /\ [][RomNext]_vars

ShSpecInit == ShInit /\ MemIdle /\ SigInit /\ RdIdle /\ RomIdle

ShNext == ShEdgeStep \/ ShReverseStep

SpecShared == ShSpecInit /\ [][ShNext]_vars

(***************************************************************************)
(* Claims about WrMemory, checked under Spec.                              *)
(***************************************************************************)
SavedThenReversed == lastOp = "reverse" /\ prevOp = "save"

C2_CapacityWindow ==
    [][(lastOp' = "reverse" /\ nsave' >= reverseStackSize' + 1)
          => /\ (nrev' = reverseStackSize' /\ reverseStackSize' >= 1) => mem' = snaps'[1]
             /\ (nrev' = reverseStackSize' + 1)
                   => (mem' = mem /\ m_reverseStack' = m_reverseStack)]_vars

\* C3: the number of records in the reverse stack never exceeds the
\* configured reverse-stack capacity.
C3_StackWithinCapacity == Len(m_reverseStack) <= reverseStackSize

\* C4: lowering the capacity below the number of records discards the oldest
\* excess records at once and keeps the newest ones in order.
C4_ShrinkTrims ==
    [][(lastOp' = "resize" /\ reverseStackSize' < Len(m_reverseStack))
          => m_reverseStack' = SubSeq(m_reverseStack, 1, reverseStackSize')]_vars

\* C5: reset() empties the reverse stack whatever its depth, and a reverse()
\* issued right after reset() changes neither the memory nor the stack.
C5_ResetThenReverseNoOp ==
    [][/\ lastOp' = "reset" => m_reverseStack' = << >>
       /\ (lastOp = "reset" /\ lastOp' = "reverse")
             => (mem' = mem /\ m_reverseStack' = m_reverseStack)]_vars

\* C5 witness: a reverse() ran right after a reset() that cleared a non-empty
\* stack, with the memory holding written data.
C5_Witness ==
    /\ lastOp = "reverse"
    /\ prevOp = "reset"
    /\ pre.depth > 0
    /\ \E a \in MemAddrs : mem[a] # 0

\* C6: forceValue(addr, value) writes the value into the AddressSpace and
\* leaves the reverse stack unchanged; a reverse() after it applies only the
\* record that was already at the front of the stack.
C6_ForceLeavesStack ==
    [][/\ lastOp' = "force"
             => /\ m_reverseStack' = m_reverseStack
                /\ read(mem', byteIndexed, pre'.addr) = pre'.value
                /\ \A a \in MemAddrs :
                      (a < EffAddr(byteIndexed, pre'.addr)
                         \/ a >= EffAddr(byteIndexed, pre'.addr) + WordBytes)
                      => mem'[a] = mem[a]
       /\ (lastOp = "force" /\ lastOp' = "reverse" /\ Len(m_reverseStack) > 0)
             => /\ m_reverseStack' = Tail(m_reverseStack)
                /\ LET front == Head(m_reverseStack)
                       lo == EffAddr(byteIndexed, front.addr)
                       span == IF front.writeEnable THEN front.width ELSE 0
                   IN \A a \in MemAddrs :
                         mem'[a] = IF a >= lo /\ a < lo + span
                                   THEN ByteOf(front.data, a - lo)
                                   ELSE mem[a]
       /\ (lastOp = "force" /\ lastOp' = "reverse" /\ Len(m_reverseStack) = 0)
             => (mem' = mem /\ m_reverseStack' = m_reverseStack)]_vars

\* C6 witness: a reverse() right after a forceValue() popped a record and
\* left the forced word in memory.
C6_Witness ==
    /\ lastOp = "reverse"
    /\ prevOp = "force"
    /\ pre.depth > 0
    /\ Len(m_reverseStack) = pre.depth - 1
    /\ pre.value # 0
    /\ read(mem, byteIndexed, pre.addr) = pre.value

(***************************************************************************)
(* Claims about the signal graph, checked under SpecSig.                   *)
(***************************************************************************)
\* the signal a reference chain ends at: an OutputSignal, nullptr (the chain
\* ends at an unconnected input), or none when the chain runs in a circle
RECURSIVE ChainEndRec(_, _, _)
ChainEndRec(sig, i, steps) ==
    IF sig[i].kind = "output" THEN sig[i]
    ELSE IF steps = 0 THEN [kind |-> "cycle", ptr |-> Null]
    ELSE ChainEndRec(sig, sig[i].ptr, steps - 1)

ChainEnd(sig, i) == ChainEndRec(sig, i, NumInputs)

\* C7: connect on an InputSignal that is already connected, to an
\* OutputSignal or to a pass-through InputSignal, fails with the
\* configuration error and leaves the input's reference unchanged.
C7_ReconnectFails ==
    [][(sigOp' = "connect" /\ m_signal[sigArg'] # OutRef(Null))
          => (failure' = "assert" /\ m_signal' = m_signal)]_vars

\* C7 witness: a connect failed on an input whose source is a pass-through
\* input that is itself still unconnected.
C7_Witness ==
    /\ failure = "assert"
    /\ sigOp = "connect"
    /\ m_signal[sigArg].kind = "input"
    /\ m_signal[sigArg].ptr # sigArg
    /\ m_signal[m_signal[sigArg].ptr] = OutRef(Null)

\* C8: an input whose reference chain ends at an OutputSignal O reports
\* isConnected() = true and its value is O's current value in every state;
\* an input whose chain ends at an unconnected input reports false.
C8_ResolvesToOutput ==
    \A i \in Inputs :
        LET end == ChainEnd(m_signal, i)
        IN /\ (end.kind = "output" /\ end.ptr # Null)
                 => /\ isConnected(m_signal, i) = Returns(TRUE)
                    /\ value(m_signal, m_value, i) = {Returns(m_value[end.ptr])}
           /\ end = OutRef(Null) => isConnected(m_signal, i) = Returns(FALSE)

\* C8 witness: a propagate() on output O has just given it a non-zero value,
\* one input reads O through a pass-through input, and another input is
\* still unconnected.
C8_Witness ==
    /\ sigOp = "propagate"
    /\ failure = "none"
    /\ m_value[sigArg] # 0
    /\ \E i \in Inputs, j \in Inputs :
          /\ i # j
          /\ m_signal[i] = InRef(j)
          /\ m_signal[j] = OutRef(sigArg)
    /\ \E i \in Inputs : ChainEnd(m_signal, i) = OutRef(Null)

\* C9: getConnectedParent() on an input connected through pass-through inputs
\* returns the component that owns the terminal OutputSignal.
C9_ParentOfTerminalOutput ==
    \A i \in Inputs :
        LET end == ChainEnd(m_signal, i)
        IN (m_signal[i].kind = "input" /\ end.kind = "output" /\ end.ptr # Null)
              => getConnectedParent(m_signal, i) = {OutParent(end.ptr)}

(***************************************************************************)
(* Claims about the read-capable memories, checked under SpecRd.           *)
(***************************************************************************)
\* C10: for an edge that writes to address A, after the edge and the
\* following propagation the data_out of the MemorySyncRd holds the value
\* stored at A before the edge's write and the data_out of the MemoryAsyncRd
\* holds the value stored at A after it.
C10_SyncReadsOldValue ==
    (rdOp = "propagate" /\ rdPrev = "edge" /\ rdEdge.writeEnable)
        => (sync_data_out = rdEdge.before /\ async_data_out = rdEdge.after)

\* C11: after save() with wr_en set and wr_width = w, the w bytes starting at
\* the accessed address hold the low w bytes of data_in and every other byte
\* of the AddressSpace is unchanged (nothing changes for w = 0); with wr_en
\* clear the whole AddressSpace is unchanged.
C11_SaveWritesSpan ==
    [][rdOp' = "edge"
          => LET lo == EffAddr(rdByteIndexed, rdEdge'.addr)
                 span == IF rdEdge'.writeEnable THEN rdEdge'.width ELSE 0
             IN \A a \in MemAddrs :
                   syncMem'[a] = IF a >= lo /\ a < lo + span
                                 THEN ByteOf(rdEdge'.data_in, a - lo)
                                 ELSE syncMem[a]]_vars

\* C11 witness: a one-byte write of a two-byte data_in on a word-indexed
\* memory stored the low byte at the shifted address and left the next byte,
\* written by an earlier edge, as it was.
C11_Witness ==
    /\ rdOp = "edge"
    /\ ~rdByteIndexed
    /\ rdEdge.writeEnable
    /\ rdEdge.addr = 1
    /\ rdEdge.width = 1
    /\ rdEdge.data_in = ByteRadix
    /\ syncMem[Shl(1, WordShift)] = 0
    /\ syncMem[Shl(1, WordShift) + 1] = 1

(***************************************************************************)
(* Further claims about WrMemory, checked under Spec.                      *)
(***************************************************************************)
\* C12: reverse() on an empty reverse stack and reset() on an empty reverse
\* stack both leave the AddressSpace contents and the empty stack unchanged.
C12_EmptyHistoryNoOp ==
    [][(lastOp' \in {"reverse", "reset"} /\ m_reverseStack = << >>)
          => (mem' = mem /\ m_reverseStack' = << >>)]_vars

\* C12 witness: a reset() on an empty stack was followed by a reverse() on
\* the still empty stack, with the memory holding written data.
C12_Witness ==
    /\ lastOp = "reverse"
    /\ prevOp = "reset"
    /\ pre.depth = 0
    /\ m_reverseStack = << >>
    /\ \E a \in MemAddrs : mem[a] # 0

(***************************************************************************)
(* Further claims about the signal graph, checked under SpecSig.           *)
(***************************************************************************)
\* C13: a second setPropagationFunction (or output-to-output connect) on an
\* OutputSignal that already has a propagation function is rejected: the
\* function installed first stays installed.
C13_SecondFunctionRejected ==
    [][\A o \in Outputs :
          hasPropagationFunction(m_propagationFunction, o)
             => m_propagationFunction'[o] = m_propagationFunction[o]]_vars

\* C16: every chain of InputSignal references built with connect is acyclic,
\* so isConnected() and value() return for every input of every graph that
\* can be built.
C16_ChainsAcyclic ==
    \A i \in Inputs :
        /\ ChainEnd(m_signal, i).kind # "cycle"
        /\ isConnected(m_signal, i).returns
        /\ NoReturn \notin value(m_signal, m_value, i)
             \/ ChainEnd(m_signal, i) = OutRef(Null)

(***************************************************************************)
(* Claims about the ROM, checked under SpecRom.                            *)
(***************************************************************************)
\* C14: no operation of a read-only memory (ROM / RdMemory) modifies the
\* AddressSpace contents.
C14_RomNeverModified == [][romMem' = romMem]_vars

C19_ResetKeepsMemory ==
    [][lastOp' = "reset"
          => (mem' = mem /\ reverseStackSize' = reverseStackSize
                /\ byteIndexed' = byteIndexed)]_vars

\* C19 witness: a reset() has cleared a stack that held a record, and the
\* memory still holds written data.
C19_Witness ==
    /\ lastOp = "reset"
    /\ pre.depth > 0
    /\ m_reverseStack = << >>
    /\ \E a \in MemAddrs : mem[a] # 0

(***************************************************************************)
(* Further claims about the memories, checked under SpecRd.                *)
(***************************************************************************)
\* C18: for both addressing modes, accessRegion() classifies the AddressSpace
\* address that read() and write() access for the current addr input: the
\* address as it is when byte-indexed, shifted left by 2 when word-indexed.
C18_RegionOfAccessedAddress ==
    accessRegion(rdByteIndexed, rdAddr) = regionType(EffAddr(rdByteIndexed, rdAddr))

(***************************************************************************)
(* Claims about two WrMemory components on one AddressSpace, checked under *)
(* SpecShared.                                                             *)
(***************************************************************************)
\* the bytes of the AddressSpace that component c writes with these ports
WriteSpan(bi, ports, c) ==
    {a \in MemAddrs : /\ a >= EffAddr(bi, ports[c].addr)
                      /\ a < EffAddr(bi, ports[c].addr) + ports[c].width}

\* both components write, to byte spans with no byte in common
DisjointWrites(bi, ports) ==
    /\ \A c \in Sharers : ports[c].writeEnable
    /\ WriteSpan(bi, ports, 1) \cap WriteSpan(bi, ports, 2) = {}

\* the AddressSpace after both save() calls of one edge, in the given order
EdgeMem(m, stack, bi, cap, ports, order) ==
    sharedSave(sharedSave([mem |-> m, stack |-> stack], bi, cap, ports, order[1]),
               bi, cap, ports, order[2]).mem

EdgeOrderIrrelevant ==
    (shOp' = "edge" /\ shEdges' = shEdges + 1 /\ DisjointWrites(shByteIndexed, shPorts'))
        => \A order \in Orders :
              shMem' = EdgeMem(shMem, shStack, shByteIndexed, shCap, shPorts', order)

====
